---- MODULE Spec2Model ----
(***************************************************************************)
(* mokey command shell (main.go): configuration load, logging set-up, the  *)
(* SIGHUP log-file reload goroutine, the key check, command dispatch and   *)
(* the post-run release of the log file.                                   *)
(*                                                                         *)
(* Two threads of control are modelled: the foreground goroutine running   *)
(* app.Before, the command Action and app.After, and the reload goroutine  *)
(* started by app.Before for log_target "file".  Each action is one        *)
(* statement (or one run of statements touching no shared state) of the    *)
(* source, so every interleaving of the two goroutines is explored.        *)
(***************************************************************************)
EXTENDS Integers, Sequences, FiniteSets, TLC

\* ---------------------------------------------------------------- bounds
MaxSighup == 2      \* SIGHUPs the environment delivers in one run
MaxRecords == 1     \* log records the running collaborator emits in one run

\* ------------------------------------------------- configuration domains
\* "INFO" is an unrecognized value: the switch of line 55 is case-sensitive
LogLevels == {"error", "warn", "info", "debug", "INFO", ""}
LogTargets == {"stderr", "stdout", "file", "syslog", "bogus", ""}
LogFiles == {"", "/var/log/mokey.log"}
LogFormats == {"text", "json"}
Commands == {"server", "resetpw", "verify-email", "status"}
Uids == {"", "alice"}

VARIABLES
  cfg,          \* what viper and the global flags yield; fixed for the run
  args,         \* the invoked command and its --uid
  hupIgnored,   \* the process was started with SIGHUP ignored (nohup)
  pc,           \* position of the foreground goroutine
  proc,         \* "alive" | "exited"
  exitCode,     \* process status once exited, -1 while alive
  exitVia,      \* how the process ended
  phases,       \* start-up phases completed so far, in order
  level,        \* logrus severity threshold
  out,          \* logrus output: [kind, h]
  hooks,        \* logrus hooks installed
  formatter,    \* logrus formatter
  logFile,      \* the global logFile: 0 is nil, else a handle
  handles,      \* every *os.File ever opened on the log file, in order
  file,         \* content of the file at the log_file path
  nrec,         \* records passed to the logger output so far
  nfg,          \* records emitted by the running collaborator
  wroteClosed,  \* some record went to a closed handle
  wpc,          \* position of the reload goroutine
  nwatchers,    \* reload goroutines started (go statement of line 90)
  chan,         \* signals buffered in the goroutine's channel c (cap 1)
  nsig,         \* SIGHUPs delivered so far
  owed,         \* a SIGHUP came after logging set-up and no reload began since
  reopenFailed, \* the reload goroutine's OpenFile returned an error
  rotations,    \* reloads carried through to line 104
  reloads,      \* "Log file successfully reloaded" records emitted
  lastReloadOut,\* handle the last such record was directed to
  calls,        \* collaborator calls made: <<function, uid>>
  cmdResult,    \* what the Action returned
  beforeErr,    \* message of the error app.Before returned, "" if none
  afterRan,     \* app.After was entered
  afterErr      \* app.After returned an error

vars == <<cfg, args, hupIgnored, pc, proc, exitCode, exitVia, phases, level,
          out, hooks, formatter, logFile, handles, file, nrec, nfg,
          wroteClosed, wpc, nwatchers, chan, nsig, owed, reopenFailed,
          rotations,
          reloads, lastReloadOut, calls, cmdResult, beforeErr, afterRan,
          afterErr>>

\* ------------------------------------------------------------- helpers
IsPrefix(s, t) == Len(s) <= Len(t) /\ SubSeq(t, 1, Len(s)) = s

\* logrus levels: a record is emitted when its level is at or above the
\* threshold in importance.
Rank(l) == CASE l = "error" -> 1 [] l = "warn" -> 2 [] l = "info" -> 3
             [] l = "debug" -> 4
LevelEnabled(l) == Rank(l) <= Rank(level)

\* the switch of line 55 without the --debug test of line 52
LevelIgnoringDebug(debug, s) ==
  IF s \in {"error", "warn", "info", "debug"} THEN s ELSE "warn"
\* lines 52-67
LevelFor(debug, s) ==
  IF debug THEN "debug"
  ELSE CASE s = "error" -> "error"
         [] s = "warn" -> "warn"
         [] s = "info" -> "info"
         [] s = "debug" -> "debug"
         [] OTHER -> "warn"

\* flags of both os.OpenFile calls (lines 81 and 98)
\* the same open without O_APPEND, truncating instead
OpenFlagsTrunc == {"O_CREATE", "O_WRONLY", "O_TRUNC"}
OpenFlags == {"O_CREATE", "O_WRONLY", "O_APPEND"}

\* os.OpenFile on the log path: content of the file afterwards
OpenedContent(content, flags) ==
  IF "O_TRUNC" \in flags THEN << >> ELSE content

\* closes counts the Close calls made on the handle
NewHandle(flags) ==
  [st |-> "open", off |-> 0, flags |-> flags, closes |-> 0]

\* write(2) through a handle: at end of file under O_APPEND, else at the
\* handle's offset
FileWrite(content, h, rec) ==
  IF "O_APPEND" \in h.flags \/ h.off >= Len(content)
  THEN Append(content, rec)
  ELSE [content EXCEPT ![h.off + 1] = rec]

\* (*os.File).Close: the handle is closed afterwards whatever it returns
\* a Close that leaves the descriptor open
ClosedNot(hs, h) == hs
Closed(hs, h) ==
  IF h = 0 THEN hs
  ELSE [hs EXCEPT ![h].st = "closed", ![h].closes = @ + 1]
\* the error of Close: nil receiver or an already closed file
CloseFails(hs, h) == h = 0 \/ hs[h].st # "open"

OpenHandles == {h \in DOMAIN handles : handles[h].st = "open"}

\* One record handed to the logger's output (logrus Entry.write).
\* Sets nrec, file, handles, wroteClosed.
Emit(kind) ==
  /\ nrec' = nrec + 1
  /\ IF out.kind = "file"
     THEN IF handles[out.h].st = "open"
          THEN /\ file' = FileWrite(file, handles[out.h],
                            [kind |-> kind, h |-> out.h, n |-> nrec + 1])
               /\ handles' = [handles EXCEPT ![out.h].off = @ + 1]
               /\ wroteClosed' = wroteClosed
          ELSE /\ wroteClosed' = TRUE
               /\ UNCHANGED <<file, handles>>
     ELSE UNCHANGED <<file, handles, wroteClosed>>

\* os.Exit / process death
Exit(code, via) ==
  /\ proc' = "exited"
  /\ exitCode' = code
  /\ exitVia' = via

PhaseOrder == <<"load", "level", "target", "format", "gate", "action">>

LoggingConfigured == pc \in {"gate", "action", "running", "after", "exit"}
                     /\ Len(phases) >= 4

Registered == wpc \notin {"none", "spawned"}

envVars == <<cfg, args, hupIgnored>>
procVars == <<proc, exitCode, exitVia>>
loggerVars == <<level, out, hooks, formatter>>
fileVars == <<logFile, handles, file>>
emitVars == <<nrec, nfg, wroteClosed>>
watchVars == <<wpc, chan, reopenFailed, rotations, nwatchers, reloads,
               lastReloadOut>>
sigVars == <<nsig, owed>>
cmdVars == <<calls, cmdResult, beforeErr, afterRan, afterErr>>

\* ----------------------------------------------------------------- Init
Init ==
  /\ cfg \in [conf_ok : BOOLEAN, debug : BOOLEAN, log_level : LogLevels,
              log_target : LogTargets, log_file : LogFiles,
              log_format : LogFormats, enc_key : BOOLEAN,
              auth_key : BOOLEAN]
  /\ args \in [cmd : Commands, uid : Uids]
  /\ hupIgnored \in BOOLEAN
  /\ pc = "load"
  /\ proc = "alive"
  /\ exitCode = -1
  /\ exitVia = "none"
  /\ phases = << >>
  /\ level = "info"
  /\ out = [kind |-> "stderr", h |-> 0]  \* logrus writes to os.Stderr
  /\ hooks = {}
  /\ formatter = "text"
  /\ logFile = 0
  /\ handles = << >>
  /\ file = << >>
  /\ nrec = 0
  /\ nfg = 0
  /\ wroteClosed = FALSE
  /\ wpc = "none"
  /\ nwatchers = 0
  /\ chan = 0
  /\ nsig = 0
  /\ owed = FALSE
  /\ reopenFailed = FALSE
  /\ rotations = 0
  /\ reloads = 0
  /\ lastReloadOut = 0
  /\ calls = << >>
  /\ cmdResult = [kind |-> "none", code |-> 0, msg |-> ""]
  /\ beforeErr = ""
  /\ afterRan = FALSE
  /\ afterErr = FALSE

\* ------------------------------------------- foreground: app.Before
NoResult == [kind |-> "none", code |-> 0, msg |-> ""]
Success == [kind |-> "ok", code |-> 0, msg |-> ""]
\* cli.NewExitError(err, code)
NewExitError(msg, code) == [kind |-> "error", code |-> code, msg |-> msg]

\* app.Before returns a non-nil error: App.Run skips the command, the
\* deferred app.After still runs, RunAndExitOnError exits 1.
BeforeFails(msg) ==
  /\ beforeErr' = msg
  /\ pc' = "after"

\* line 48
\* the check of line 48 left out
ConfigLoadNeverFails == FALSE
ConfigLoadFails == ~cfg.conf_ok

\* lines 42-50
LoadConfig ==
  /\ proc = "alive" /\ pc = "load"
  /\ IF ConfigLoadFails
     THEN /\ BeforeFails("Failed reading config file")
          /\ UNCHANGED phases
     ELSE /\ phases' = Append(phases, "load")
          /\ pc' = "level"
          /\ UNCHANGED beforeErr
  /\ UNCHANGED <<envVars, procVars, loggerVars, fileVars, emitVars,
                 watchVars, sigVars, calls, cmdResult, afterRan, afterErr>>

\* lines 52-67
SetLevel ==
  /\ proc = "alive" /\ pc = "level"
  /\ level' = LevelFor(cfg.debug, cfg.log_level)
  /\ phases' = Append(phases, "level")
  /\ pc' = "target"
  /\ UNCHANGED <<envVars, procVars, out, hooks, formatter, fileVars,
                 emitVars, watchVars, sigVars, cmdVars>>

\* os.Stderr and os.Stdout as arguments of log.SetOutput (lines 71, 74, 118)
Stderr == [kind |-> "stderr", h |-> 0]
\* the stdout case set to os.Stderr
StdoutAsStderr == [kind |-> "stderr", h |-> 0]
Stdout == [kind |-> "stdout", h |-> 0]

\* Destinations a record reaches: the logger's output and every hook
Sinks == {out.kind} \cup hooks

TargetDone ==
  /\ phases' = Append(phases, "target")
  /\ pc' = "format"
  /\ UNCHANGED beforeErr

\* line 77
\* the length check of line 77 left out
LogFileMissingNever == FALSE
LogFileMissing == cfg.log_file = ""

\* line 90: the go statement starts a reload goroutine
StartWatcher ==
  /\ wpc' = "spawned"
  /\ nwatchers' = nwatchers + 1

\* lines 85-87: the return on a failed open precedes the go statement
\* the go statement placed before the error check of line 83
OpenFailedStartsWatcher == StartWatcher
OpenFailedWatcher == UNCHANGED <<wpc, nwatchers>>

\* lines 69-119; for "file" this runs up to the go statement of line 90
SetTarget ==
  /\ proc = "alive" /\ pc = "target"
  /\ CASE cfg.log_target = "stderr" ->
            /\ out' = Stderr
            /\ TargetDone
            /\ UNCHANGED <<hooks, fileVars, wpc, nwatchers>>
       [] cfg.log_target = "stdout" ->
            /\ out' = Stdout
            /\ TargetDone
            /\ UNCHANGED <<hooks, fileVars, wpc, nwatchers>>
       [] cfg.log_target = "file" ->
            IF LogFileMissing
            THEN /\ BeforeFails("Please specify a log file")
                 /\ UNCHANGED <<phases, out, hooks, fileVars, wpc, nwatchers>>
            ELSE \/ \* os.OpenFile succeeds
                    /\ handles' = Append(handles, NewHandle(OpenFlags))
                    /\ file' = OpenedContent(file, OpenFlags)
                    /\ logFile' = Len(handles) + 1
                    /\ out' = [kind |-> "file", h |-> Len(handles) + 1]
                    /\ StartWatcher
                    /\ TargetDone
                    /\ UNCHANGED hooks
                 \/ \* os.OpenFile fails: logFile is assigned nil
                    /\ logFile' = 0
                    /\ BeforeFails("Failed to open log file")
                    /\ OpenFailedWatcher
                    /\ UNCHANGED <<phases, out, hooks, handles, file>>
       [] cfg.log_target = "syslog" ->
            \/ /\ hooks' = hooks \cup {"syslog"}
               /\ TargetDone
               /\ UNCHANGED <<out, fileVars, wpc, nwatchers>>
            \/ /\ BeforeFails("Failed to setup syslog output")
               /\ UNCHANGED <<phases, out, hooks, fileVars, wpc, nwatchers>>
       [] OTHER ->
            /\ out' = Stderr
            /\ TargetDone
            /\ UNCHANGED <<hooks, fileVars, wpc, nwatchers>>
  /\ UNCHANGED <<envVars, procVars, level, formatter, emitVars, chan,
                 reopenFailed, rotations, reloads, lastReloadOut, sigVars,
                 calls, cmdResult, afterRan, afterErr>>

\* lines 121-125
SetFormat ==
  /\ proc = "alive" /\ pc = "format"
  /\ formatter' = IF cfg.log_format = "json" THEN "json" ELSE formatter
  /\ phases' = Append(phases, "format")
  /\ pc' = "gate"
  /\ UNCHANGED <<envVars, procVars, level, out, hooks, fileVars, emitVars,
                 watchVars, sigVars, cmdVars>>

\* line 129
\* the check of line 129 with && for ||
KeysMissingBoth == ~cfg.enc_key /\ ~cfg.auth_key
KeysMissing == ~cfg.enc_key \/ ~cfg.auth_key

\* lines 129-133; log.Fatal writes the record and calls os.Exit(1)
Gate ==
  /\ proc = "alive" /\ pc = "gate"
  /\ IF KeysMissing
     THEN /\ Emit("fatal")
          /\ Exit(1, "fatal")
          /\ UNCHANGED <<pc, phases>>
     ELSE /\ phases' = Append(phases, "gate")
          /\ pc' = "action"
          /\ UNCHANGED <<procVars, file, handles, nrec, wroteClosed>>
  /\ UNCHANGED <<envVars, loggerVars, logFile, nfg, watchVars, sigVars,
                 cmdVars>>

\* ------------------------------------------- foreground: the command
Collaborator(cmd) ==
  CASE cmd = "server" -> "server.Run"
    [] cmd = "resetpw" -> "tools.SendResetPasswordEmail"
    [] cmd = "verify-email" -> "tools.SendVerifyEmail"
    [] cmd = "status" -> "tools.Status"

\* lines 163, 183, 203
\* the length check left out
UidMissingNever(uid) == FALSE
UidMissing(uid) == uid = ""

\* The Action returned an ExitCoder.  cli's HandleExitCoder prints it and
\* calls os.Exit(code) inside Command.Run, before the deferred app.After;
\* a release without that call hands the error back to App.Run, which runs
\* app.After and lets RunAndExitOnError exit 1.  Both are allowed.
ReturnExitError(msg) ==
  /\ cmdResult' = NewExitError(msg, 1)
  /\ \/ /\ Exit(1, "exiterror")
        /\ UNCHANGED pc
     \/ /\ pc' = "after"
        /\ UNCHANGED procVars

\* Entry of the selected Action: lines 146, 162-167, 182-187, 202-207
Action ==
  /\ proc = "alive" /\ pc = "action"
  /\ phases' = Append(phases, "action")
  /\ IF args.cmd # "server" /\ UidMissing(args.uid)
     THEN /\ ReturnExitError("Please provide a uid")
          /\ UNCHANGED calls
     ELSE /\ calls' = Append(calls, <<Collaborator(args.cmd),
                                     IF args.cmd = "server" THEN ""
                                     ELSE args.uid>>)
          /\ pc' = "running"
          /\ UNCHANGED <<procVars, cmdResult>>
  /\ UNCHANGED <<envVars, loggerVars, fileVars, emitVars, watchVars, sigVars,
                 beforeErr, afterRan, afterErr>>

\* The collaborator logs a record through the package-level logger while it
\* runs (lines 146, 167, 187, 207).
CollaboratorLog ==
  /\ proc = "alive" /\ pc = "running"
  /\ nfg < MaxRecords
  /\ \E l \in {"error", "warn", "info", "debug"} : LevelEnabled(l)
  /\ Emit("fg")
  /\ nfg' = nfg + 1
  /\ UNCHANGED <<envVars, pc, procVars, phases, loggerVars, logFile,
                 watchVars, sigVars, cmdVars>>

\* The collaborator returns: lines 147-152, 168-172, 188-192, 208-212
CollaboratorReturn ==
  /\ proc = "alive" /\ pc = "running"
  /\ \/ \* nil error
        /\ cmdResult' = Success
        /\ pc' = "after"
        /\ UNCHANGED <<procVars, file, handles, nrec, wroteClosed>>
     \/ \* server.Run failed: log.Fatal(err) exits, line 149 is not reached
        /\ args.cmd = "server"
        /\ Emit("fatal")
        /\ Exit(1, "fatal")
        /\ UNCHANGED <<pc, cmdResult>>
     \/ \* a uid command's collaborator failed
        /\ args.cmd # "server"
        /\ ReturnExitError("collaborator error")
        /\ UNCHANGED <<file, handles, nrec, wroteClosed>>
  /\ UNCHANGED <<envVars, phases, loggerVars, logFile, nfg, watchVars,
                 sigVars, calls, beforeErr, afterRan, afterErr>>

\* Values a read of logFile by the foreground goroutine may yield.  The
\* reload goroutine assigns logFile with no synchronisation, so the read
\* may see its latest assignment or an earlier one.
LogFileReads == IF logFile = 0 THEN {0} ELSE 1..logFile

\* lines 135-140
After ==
  /\ proc = "alive" /\ pc = "after"
  /\ afterRan' = TRUE
  /\ \E h \in LogFileReads :
       /\ handles' = Closed(handles, h)
       /\ afterErr' = (h # 0 /\ CloseFails(handles, h))
  /\ pc' = "exit"
  /\ UNCHANGED <<envVars, procVars, phases, loggerVars, logFile, file,
                 emitVars, watchVars, sigVars, calls, cmdResult, beforeErr>>

\* App.Run's error: Before's, else the Action's, joined with After's
RunFailed == beforeErr # "" \/ cmdResult.kind = "error" \/ afterErr

\* line 216: RunAndExitOnError exits 1 on an error, else main returns
ExitMain ==
  /\ proc = "alive" /\ pc = "exit"
  /\ IF RunFailed THEN Exit(1, "error") ELSE Exit(0, "return")
  /\ pc' = "done"
  /\ UNCHANGED <<envVars, phases, loggerVars, fileVars, emitVars, watchVars,
                 sigVars, cmdVars>>

\* ------------------------------------------------ the environment
\* A SIGHUP reaches the process.  Once signal.Notify ran (line 92) it is
\* sent to c without blocking, so it is dropped when c is full.  Before
\* that the process has the disposition it was started with: ignored, or
\* the default, which ends the process.
Sighup ==
  /\ proc = "alive"
  /\ nsig < MaxSighup
  /\ nsig' = nsig + 1
  /\ IF Registered
     THEN /\ chan' = 1
          /\ UNCHANGED procVars
     ELSE IF hupIgnored
          THEN UNCHANGED <<chan, procVars>>
          ELSE /\ Exit(129, "sighup")
               /\ UNCHANGED chan
  /\ owed' = (owed \/ (cfg.log_target = "file" /\ LoggingConfigured))
  /\ UNCHANGED <<envVars, pc, phases, loggerVars, fileVars, emitVars, wpc,
                 reopenFailed, rotations, nwatchers, reloads,
                 lastReloadOut, cmdVars>>

\* ------------------------------------------------ the reload goroutine
\* lines 91-92
WNotify ==
  /\ proc = "alive" /\ wpc = "spawned"
  /\ wpc' = "waiting"
  /\ UNCHANGED <<envVars, pc, procVars, phases, loggerVars, fileVars,
                 emitVars, chan, reopenFailed, rotations, nwatchers, reloads,
                 lastReloadOut, sigVars, cmdVars>>

\* line 95
WReceive ==
  /\ proc = "alive" /\ wpc = "waiting"
  /\ chan = 1
  /\ chan' = 0
  /\ wpc' = "received"
  /\ UNCHANGED <<envVars, pc, procVars, phases, loggerVars, fileVars,
                 emitVars, reopenFailed, rotations, nwatchers, reloads,
                 lastReloadOut,
                 sigVars, cmdVars>>

\* line 97: the reload begins; the error of Close is dropped
WClose ==
  /\ proc = "alive" /\ wpc = "received"
  /\ handles' = Closed(handles, logFile)
  /\ wpc' = "closed"
  /\ owed' = FALSE
  /\ UNCHANGED <<envVars, pc, procVars, phases, loggerVars, logFile, file,
                 emitVars, chan, reopenFailed, rotations, nwatchers, reloads,
                 lastReloadOut, nsig, cmdVars>>

\* lines 100-101: the panic of a goroutine ends the process with status 2
\* the same failure without the panic: the goroutine waits again
ReopenFailureIgnored ==
  /\ reopenFailed' = TRUE
  /\ wpc' = "waiting"
  /\ UNCHANGED procVars
ReopenFailure ==
  /\ reopenFailed' = TRUE
  /\ Exit(2, "panic")
  /\ UNCHANGED wpc

\* lines 98-101
WReopen ==
  /\ proc = "alive" /\ wpc = "closed"
  /\ \/ \* os.OpenFile succeeds
        /\ handles' = Append(handles, NewHandle(OpenFlags))
        /\ file' = OpenedContent(file, OpenFlags)
        /\ logFile' = Len(handles) + 1
        /\ wpc' = "opened"
        /\ UNCHANGED <<procVars, reopenFailed>>
     \/ \* os.OpenFile fails: logFile is assigned nil
        /\ logFile' = 0
        /\ ReopenFailure
        /\ UNCHANGED <<handles, file>>
  /\ UNCHANGED <<envVars, pc, phases, loggerVars, emitVars, chan, rotations,
                 nwatchers,
                 reloads, lastReloadOut, sigVars, cmdVars>>

\* the argument of log.SetOutput at line 103
\* the handle the logger already has, instead of the reopened one
InstallStale == out.h
InstallTarget == logFile

\* a reload that installs a fresh logger: level, format and hooks fall back
\* to the defaults
WInstallFreshLogger ==
  /\ proc = "alive" /\ wpc = "opened"
  /\ out' = [kind |-> "file", h |-> InstallTarget]
  /\ level' = "info" /\ hooks' = {} /\ formatter' = "text"
  /\ wpc' = "installed"
  /\ UNCHANGED <<envVars, pc, procVars, phases, fileVars, emitVars, chan,
                 reopenFailed, rotations, nwatchers, reloads,
                 lastReloadOut,
                 sigVars, cmdVars>>
\* line 103
WInstall ==
  /\ proc = "alive" /\ wpc = "opened"
  /\ out' = [kind |-> "file", h |-> InstallTarget]
  /\ wpc' = "installed"
  /\ UNCHANGED <<envVars, pc, procVars, phases, level, hooks, formatter,
                 fileVars, emitVars, chan, reopenFailed, rotations,
                 nwatchers, reloads,
                 lastReloadOut, sigVars, cmdVars>>

\* line 104: log.Info passes the record on only at threshold info or debug
WInfo ==
  /\ proc = "alive" /\ wpc = "installed"
  /\ IF LevelEnabled("info")
     THEN /\ Emit("reload")
          /\ reloads' = reloads + 1
          /\ lastReloadOut' = out.h
     ELSE UNCHANGED <<file, handles, nrec, wroteClosed, reloads,
                      lastReloadOut>>
  /\ rotations' = rotations + 1
  /\ wpc' = "waiting"
  /\ UNCHANGED <<envVars, pc, procVars, phases, loggerVars, logFile, nfg,
                 chan, reopenFailed, nwatchers, sigVars, cmdVars>>

Foreground ==
  \/ LoadConfig \/ SetLevel \/ SetTarget \/ SetFormat \/ Gate
  \/ Action \/ After \/ ExitMain

Watcher == WNotify \/ WReceive \/ WClose \/ WReopen \/ WInstall \/ WInfo

Next ==
  \/ LoadConfig \/ SetLevel \/ SetTarget \/ SetFormat \/ Gate
  \/ Action \/ CollaboratorLog \/ CollaboratorReturn \/ After \/ ExitMain
  \/ Sighup
  \/ WNotify \/ WReceive \/ WClose \/ WReopen \/ WInstall \/ WInfo

Spec == Init /\ [][Next]_vars

\* The Go scheduler runs every runnable goroutine: the reload goroutine and
\* the shell's own foreground steps are weakly fair.  A collaborator may
\* block for ever (server.Run) and nothing obliges a SIGHUP to arrive.
LiveSpec == Spec /\ WF_vars(Watcher) /\ WF_vars(Foreground)

\* ================================================================ claims
Range(q) == {q[i] : i \in DOMAIN q}
ActionStarted == "action" \in Range(phases)

\* C1: with log target file, no record is ever emitted to a closed handle:
\* whenever a record is written, the handle the logger references is open.
C1_NoRecordToClosedHandle == ~wroteClosed

\* C2: at most one output handle of the log file is open at any instant,
\* across the initial open, every reload and the post-run release.
C2_AtMostOneOpenHandle == Cardinality(OpenHandles) <= 1
\* two reloads went through and the post-run hook ran
C2_Witness ==
  /\ Len(handles) = 3
  /\ handles[1].st = "closed" /\ handles[2].st = "closed"
  /\ afterRan

\* C3: when enc_key or auth_key is not set, the process never starts a
\* command action and never calls a collaborator, whatever the command and
\* the log target, and its exit status is non-zero.
C3_MissingKeyNoCommand ==
  (~cfg.enc_key \/ ~cfg.auth_key) =>
    /\ ~ActionStarted
    /\ pc \notin {"action", "running"}
    /\ calls = << >>
    /\ cmdResult = NoResult
    /\ (proc = "exited" => exitCode # 0)
\* the key check itself ended the process, for the file target
C3_Witness ==
  /\ cfg.enc_key /\ ~cfg.auth_key
  /\ cfg.log_target = "file"
  /\ phases = <<"load", "level", "target", "format">>
  /\ exitVia = "fatal" /\ exitCode = 1

\* C4: the phases run in the order load, level, target, format, key check,
\* command; a command action starts only after the three start-up phases
\* succeeded, and the key check runs only after logging is configured.
C4_PhaseOrder ==
  /\ IsPrefix(phases, PhaseOrder)
  /\ (calls # << >> \/ cmdResult # NoResult \/ pc = "running")
        => ActionStarted
  /\ ActionStarted =>
       /\ cfg.conf_ok
       /\ level = LevelFor(cfg.debug, cfg.log_level)
       /\ cfg.log_target = "file" => (cfg.log_file # "" /\ handles # << >>)
       /\ cfg.log_target = "syslog" => "syslog" \in hooks
       /\ cfg.log_format = "json" => formatter = "json"
       /\ cfg.enc_key /\ cfg.auth_key
  /\ (pc = "gate" \/ exitVia = "fatal") => Len(phases) >= 4
C4_Witness == phases = PhaseOrder /\ pc = "running"

\* C5: resetpw, verify-email and status with an empty uid return exit code
\* 1 with "Please provide a uid" and call no collaborator, for every log
\* target.
C5_MissingUid ==
  (ActionStarted /\ args.cmd # "server" /\ args.uid = "") =>
    /\ cmdResult = NewExitError("Please provide a uid", 1)
    /\ calls = << >>
    /\ pc # "running"
    /\ (exitVia \in {"exiterror", "error"} => exitCode = 1)
    /\ exitVia # "return"
C5_Witness ==
  /\ args.cmd = "verify-email" /\ args.uid = ""
  /\ cfg.log_target = "file"
  /\ ActionStarted
  /\ proc = "exited" /\ exitCode = 1

\* C6: a failed reopen in the reload goroutine ends the whole process
\* abnormally; the process is never alive after a failed reopen.
C6_ReopenFailureIsFatal ==
  reopenFailed => (proc = "exited" /\ exitVia = "panic" /\ exitCode # 0)
C6_Witness == reopenFailed /\ pc = "running" /\ rotations = 1

\* what holds of the handles at each position of the reload goroutine:
\* close (97) came before reopen (98), reopen before install (103)
ReloadOrder ==
  /\ wpc = "closed" =>
       (logFile = 0 \/ handles[logFile].st = "closed")
  /\ wpc \in {"opened", "installed"} =>
       /\ logFile = Len(handles)
       /\ \A h \in 1..(logFile - 1) : handles[h].st = "closed"
  /\ wpc = "opened" => out.h = logFile - 1
  /\ wpc = "installed" => out = [kind |-> "file", h |-> logFile]

ReloadRecordsVia(h) ==
  {i \in DOMAIN file : file[i].kind = "reload" /\ file[i].h = h}

\* C7 as claimed: each reload that succeeds closes the handle, reopens the
\* path, installs the new handle and emits exactly one reload record, which
\* is written to the new handle.
C7_OneReloadRecordPerReload ==
  /\ ReloadOrder
  /\ reloads = rotations
  /\ (rotations > 0 /\ wpc \in {"waiting", "received"}) =>
       Cardinality(ReloadRecordsVia(logFile)) = 1

\* C7 amended: each reload that succeeds closes the handle, reopens the
\* path, installs the new handle and calls log.Info once; at threshold info
\* or debug that hands exactly one reload record to the new handle, which
\* reaches the file if the handle is still open, and at threshold warn or
\* error it emits none.
C7_ReloadRecordAtInfoThreshold ==
  /\ ReloadOrder
  /\ reloads = (IF level \in {"info", "debug"} THEN rotations ELSE 0)
  /\ \A h \in DOMAIN handles : Cardinality(ReloadRecordsVia(h)) <= 1
  /\ (reloads > 0 /\ wpc \in {"waiting", "received"}) =>
       /\ lastReloadOut = logFile
       /\ handles[logFile].st = "open" =>
            Cardinality(ReloadRecordsVia(logFile)) = 1
C7_Witness ==
  /\ rotations = 2 /\ reloads = 2 /\ wpc = "waiting"
  /\ Cardinality(ReloadRecordsVia(3)) = 1
  /\ Cardinality(ReloadRecordsVia(2)) = 1

\* C8: with log target file, every SIGHUP delivered after logging was
\* configured is eventually followed by a reload that begins after it,
\* unless the process ends first.
C8_SighupLeadsToReload == owed ~> (~owed \/ proc = "exited")

\* C9: once start-up opened a log file, the post-run hook runs whatever the
\* command's outcome, and the exit code is the one the command determined.
C9_AfterAlwaysRuns ==
  (/\ proc = "exited"
   /\ ActionStarted
   /\ handles # << >>
   /\ exitVia \in {"return", "error", "exiterror", "fatal"}) =>
     /\ afterRan
     /\ exitCode = (IF exitVia = "fatal" THEN 1 ELSE cmdResult.code)

\* C10: across log writes and reloads the file only grows by appending:
\* every record written stays, and later records come after earlier ones.
C10_AppendOnly == [][IsPrefix(file, file')]_vars
\* a record written through the first handle is followed in the file by a
\* record written through a reopened one
C10_Witness ==
  /\ Len(file) >= 2
  /\ file[1].h = 1 /\ file[1].kind = "fg"
  /\ file[Len(file)].h > 1
  /\ \A i \in 1..(Len(file) - 1) : file[i].n < file[i + 1].n

\* the sink each log_target value names; stderr for any other value
TargetSink(t) == IF t \in {"stderr", "stdout", "file", "syslog"} THEN t
                 ELSE "stderr"
TargetSet == "target" \in Range(phases)

\* C11 as claimed: for each of stderr, stdout, file and syslog the logging
\* configuration selects exactly one sink, the one named; for any other or
\* absent value it selects stderr.
C11_ExactlyOneSink == TargetSet => Sinks = {TargetSink(cfg.log_target)}

\* C11 amended: stderr, stdout and file select exactly the sink named, any
\* other or absent value selects stderr, and syslog adds the syslog hook
\* while the output stays os.Stderr, so records reach both.
C11_SinkPerTarget ==
  TargetSet =>
    /\ cfg.log_target # "syslog" => Sinks = {TargetSink(cfg.log_target)}
    /\ cfg.log_target = "syslog" => Sinks = {"stderr", "syslog"}
    /\ cfg.log_target = "file" => out.h \in DOMAIN handles
    /\ cfg.log_target # "file" => out.h = 0
C11_Witness ==
  /\ cfg.log_target = "syslog" /\ out.kind = "stderr" /\ hooks = {"syslog"}
  /\ pc = "running"

LevelSet == "level" \in Range(phases)

\* C12: once the level is configured the threshold is debug when --debug
\* was given, else the level log_level names when it is exactly error,
\* warn, info or debug, else warn.
C12_Threshold ==
  LevelSet =>
    /\ cfg.debug => level = "debug"
    /\ (~cfg.debug /\ cfg.log_level \in {"error", "warn", "info", "debug"})
         => level = cfg.log_level
    /\ (~cfg.debug /\ cfg.log_level \notin {"error", "warn", "info", "debug"})
         => level = "warn"
\* --debug overrides a configured error level
C12_Witness ==
  /\ cfg.debug /\ cfg.log_level = "error"
  /\ level = "debug"
  /\ pc = "running"

\* C13: with log target file and an absent or empty log_file the logging
\* configuration fails: os.OpenFile is never called (no file is created or
\* opened), no reload goroutine starts, the key check does not run and no
\* command executes.
C13_MissingLogFile ==
  (cfg.log_target = "file" /\ cfg.log_file = "") =>
    /\ ~TargetSet
    /\ handles = << >> /\ file = << >> /\ logFile = 0
    /\ out = Stderr
    /\ wpc = "none" /\ nwatchers = 0
    /\ pc \notin {"format", "gate", "action", "running"}
    /\ exitVia # "fatal"
    /\ calls = << >> /\ cmdResult = NoResult
    /\ (proc = "exited" => exitCode # 0)
C13_Witness ==
  /\ cfg.log_target = "file" /\ cfg.log_file = ""
  /\ beforeErr = "Please specify a log file"
  /\ proc = "exited" /\ exitCode = 1

\* C14: when loading the configuration fails, nothing of the logging
\* set-up happens (level, output, hooks and format keep their defaults, no
\* file is opened, no reload goroutine starts), the key check does not run
\* and no command executes.
C14_ConfigLoadFailure ==
  ~cfg.conf_ok =>
    /\ phases = << >>
    /\ pc \in {"load", "after", "exit", "done"}
    /\ level = "info" /\ out = Stderr /\ hooks = {} /\ formatter = "text"
    /\ handles = << >> /\ file = << >> /\ logFile = 0
    /\ wpc = "none" /\ nwatchers = 0
    /\ exitVia # "fatal"
    /\ calls = << >> /\ cmdResult = NoResult
    /\ (proc = "exited" => exitCode # 0)
C14_Witness ==
  /\ ~cfg.conf_ok
  /\ cfg.log_target = "file" /\ cfg.log_file # "" /\ cfg.debug
  /\ beforeErr = "Failed reading config file"
  /\ afterRan
  /\ proc = "exited" /\ exitCode = 1

\* C15: resetpw, verify-email and status with a non-empty uid, once
\* start-up succeeded, call their collaborator exactly once with that uid,
\* and the process exits 0 when the collaborator succeeds and 1 when it
\* returns an error.
C15_UidCommandOutcome ==
  (ActionStarted /\ args.cmd # "server" /\ args.uid # "") =>
    /\ calls = << <<Collaborator(args.cmd), args.uid>> >>
    /\ exitVia \in {"return", "error", "exiterror"} =>
         /\ cmdResult # NoResult
         /\ exitCode = (IF cmdResult = Success THEN 0 ELSE 1)

\* C16: at most one reload goroutine ever exists, and one exists only when
\* the log target is file and the initial open succeeded; for every other
\* target none is started and a SIGHUP never changes the logging output.
C16_WatcherOnlyForFile ==
  /\ nwatchers <= 1
  /\ (wpc # "none") <=> (nwatchers = 1)
  /\ nwatchers = 1 =>
       /\ cfg.log_target = "file" /\ cfg.log_file # ""
       /\ handles # << >>
       /\ TargetSet
  /\ cfg.log_target # "file" =>
       /\ wpc = "none" /\ chan = 0 /\ rotations = 0
       /\ handles = << >> /\ logFile = 0
       /\ out = (IF TargetSet /\ cfg.log_target = "stdout" THEN Stdout
                 ELSE Stderr)
\* the goroutine of a file target handled two signals; no second one started
C16_Witness ==
  /\ cfg.log_target = "file"
  /\ nwatchers = 1 /\ wpc = "waiting" /\ rotations = 2

\* C17: no handle is closed more than once, whatever the interleaving of
\* the reload goroutine's close and reopen with the post-run hook's close,
\* so a reload never makes the release after a successful command fail.
C17_NoDoubleClose ==
  /\ \A h \in DOMAIN handles : handles[h].closes <= 1
  /\ cmdResult = Success => ~afterErr

\* logFile and the logger's output are the same handle, and it is open
OutputAgrees ==
  /\ logFile # 0
  /\ out = [kind |-> "file", h |-> logFile]
  /\ handles[logFile].st = "open"

\* C18 as claimed: whenever the process is alive with log target file and
\* the reload goroutine is waiting, logFile and the logger's output are the
\* same open handle, after any number of reloads.
C18_WaitingOutputAgrees ==
  (proc = "alive" /\ cfg.log_target = "file" /\ wpc = "waiting")
    => OutputAgrees

\* C18 amended: the same, until the post-run hook has run; app.After closes
\* logFile while the process is still alive and the goroutine still waits.
C18_WaitingOutputAgreesUntilAfter ==
  (proc = "alive" /\ cfg.log_target = "file" /\ wpc = "waiting"
   /\ ~afterRan) => OutputAgrees
C18_Witness ==
  /\ proc = "alive" /\ wpc = "waiting" /\ ~afterRan
  /\ rotations = 2
  /\ logFile = 3 /\ OutputAgrees

\* C19: a step of the reload goroutine changes only the output handle:
\* the threshold, the format, the hooks and the configuration (with the
\* log file path) are after it what they were before, so after any number
\* of reloads they are what logging configuration left.
C19_ReloadFrame ==
  [][Watcher => UNCHANGED <<level, formatter, hooks, cfg>>]_vars
\* two reloads done under a configuration that differs from the defaults
C19_Witness ==
  /\ rotations = 2 /\ wpc = "waiting"
  /\ level = "debug" /\ formatter = "json"
  /\ cfg.log_file = "/var/log/mokey.log"

====
